---- MODULE Spec2Model ----
(***************************************************************************)
(* Order lifecycle, stock ledger and vehicle assignment of the aggregates  *)
(* back office (Pedido.js, Stock.js, Vehiculo.js, the pedidos / vehiculos  *)
(* / stock controllers and the SQL of config/queries.js).                  *)
(*                                                                         *)
(* Every `await query(...)` of the source is one atomic step against the   *)
(* database; a request (one HTTP handler invocation) is a sequence of such *)
(* steps, and the steps of different requests interleave freely.           *)
(* Quantities are whole units (m3); the database rows that matter are the  *)
(* order's estado, the stock's cantidad_disponible and the vehicle's       *)
(* estado.                                                                 *)
(***************************************************************************)
EXTENDS Integers, Sequences, FiniteSets, TLC

VARIABLES
    pedidos,      \* table pedidos: sequence of rows, the row's index is its id
    stock,        \* table stock: material_id -> cantidad_disponible
    vehiculos,    \* table vehiculos: id -> row
    rq,           \* the requests in flight: request -> its locals and position
    stock0,       \* cantidad_disponible of every material in the initial state
    materiales,   \* table materiales: material id -> [activo, precio_por_unidad]
    reloj,        \* the hour of the day, new Date().getHours(), during the run
    cantidad_minima   \* table stock: material_id -> cantidad_minima

vars == <<pedidos, stock, vehiculos, rq, stock0, materiales, reloj, cantidad_minima>>

----------------------------------------------------------------------------
(* Bounds of the model *)

MaxStock == 3
MaxQty == 2
MaxPrecio == 3

(* Program constants *)

CANTIDAD_MAXIMA == 1000
PRECIO_MAXIMO == 100000
CAPACIDAD_MAXIMA == 50

Materials == {1, 2}
Vehicles == {1, 2}
Reqs == {"r1", "r2"}
NoId == 0

----------------------------------------------------------------------------
(* Pedido.ESTADOS and Pedido.FLUJO_ESTADOS *)

ESTADOS ==
    {"pendiente", "confirmado", "asignado", "en_transito", "entregado", "cancelado"}

FLUJO_ESTADOS_sinTabla == [e \in ESTADOS |-> ESTADOS]

FLUJO_ESTADOS ==
    [e \in ESTADOS |->
        CASE e = "pendiente"   -> {"confirmado", "cancelado"}
          [] e = "confirmado"  -> {"asignado", "cancelado"}
          [] e = "asignado"    -> {"en_transito", "cancelado"}
          [] e = "en_transito" -> {"entregado"}
          [] e = "entregado"   -> {}
          [] e = "cancelado"   -> {}]

VEHICULO_ESTADOS == {"disponible", "en_uso", "mantenimiento", "averiado"}

----------------------------------------------------------------------------
(* Validators and SQL predicates *)

\* validateId: a missing, non-numeric or non-positive id is invalid
validateId(id) == id > 0

\* validateQuantity: 0 < cantidad <= 1000
validateQuantity(c) == c > 0 /\ c <= CANTIDAD_MAXIMA

\* validateVehicleCapacity: 0 < capacidad <= 50
validateVehicleCapacity(c) == c > 0 /\ c <= CAPACIDAD_MAXIMA

\* verificar_stock_disponible(material_id, cantidad): the stored function behind
\* STOCK.CHECK_AVAILABILITY; requiredQty <= available_quantity
verificar_stock_disponible(m, c) == m \in DOMAIN stock /\ c <= stock[m]

\* WHERE clause of STOCK.REDUCE_STOCK
REDUCE_STOCK_sinCondicion(disp, c) == TRUE

REDUCE_STOCK_where(disp, c) == disp >= c

\* PEDIDOS.FIND_BY_ID: the row, or NoRow
NoRow ==
    [estado |-> "ninguno", cantidad |-> 0, material_id |-> NoId, coords |-> FALSE, direccion_entrega |-> {},
     codigo_seguimiento |-> <<>>, precio_total |-> 0]

FIND_BY_ID(id) == IF id \in DOMAIN pedidos THEN pedidos[id] ELSE NoRow

----------------------------------------------------------------------------
(* Tracking codes (utils/codigoSeguimiento.js). A code is modelled by the   *)
(* characters that follow its prefix ZAM, a sequence of decimal digits      *)

LargoCodigo == 6

RECURSIVE Digitos(_)
\* String(n): the decimal digits of n
Digitos(n) == IF n < 10 THEN <<n>> ELSE Append(Digitos(n \div 10), n % 10)

RECURSIVE padStart(_, _, _)
\* s.padStart(largo, relleno)
padStart(s, largo, relleno) ==
    IF Len(s) >= largo THEN s ELSE padStart(<<relleno>> \o s, largo, relleno)

\* `ZAM${String(nextNumber).padStart(6, "0")}`
CodigoDe(nextNumber) == padStart(Digitos(nextNumber), LargoCodigo, 0)

\* codigo_seguimiento ~ '^ZAM[0-9]{6}$'
BienFormado(codigo) ==
    Len(codigo) = LargoCodigo /\ \A i \in 1 .. Len(codigo) : codigo[i] \in 0 .. 9

RECURSIVE Numero(_)
\* CAST(SUBSTRING(codigo_seguimiento, 4) AS INTEGER)
Numero(codigo) ==
    IF codigo = <<>> THEN 0
    ELSE 10 * Numero(SubSeq(codigo, 1, Len(codigo) - 1)) + codigo[Len(codigo)]

Maximo(S) == CHOOSE x \in S : \A y \in S : y <= x

\* the query of generateUniqueTrackingCode: COALESCE(MAX(...), 0) + 1
next_number ==
    Maximo({0} \cup {IF BienFormado(pedidos[o].codigo_seguimiento)
                        THEN Numero(pedidos[o].codigo_seguimiento) ELSE 0 :
                     o \in DOMAIN pedidos}) + 1

----------------------------------------------------------------------------
(* Requests *)

\* no error detail
SinDetalle == [desde |-> "ninguno", hacia |-> "ninguno", permitidas |-> {}]

Idle ==
    [op |-> "none", pc |-> "idle", pedido |-> NoId, nuevo |-> "ninguno",
     visto |-> "ninguno", material |-> NoId, cant |-> 0, leido |-> 0, nueva |-> 0, disponible |-> FALSE,
     vehiculo_id |-> NoId, veh |-> NoId, lista |-> <<>>,
     err |-> "none", msg |-> "none", redujo |-> FALSE, escribio |-> FALSE, flip |-> FALSE,
     precio |-> 0, codigo |-> <<>>, creado |-> NoId, detalle |-> SinDetalle,
     puntos |-> 0, reglas |-> <<>>, tiempo |-> 0, nivel |-> "ninguno"]

\* what is left of a request once its handler has responded: the operation, its
\* target, the outcome and what the call wrote; the other locals are gone
Respuesta(rec, pc, kind, msg) ==
    [Idle EXCEPT !.op = rec.op, !.pc = pc, !.err = kind, !.msg = msg,
                 !.pedido = rec.pedido, !.material = rec.material, !.cant = rec.cant,
                 !.veh = rec.veh, !.redujo = rec.redujo, !.escribio = rec.escribio,
                 !.flip = rec.flip, !.codigo = rec.codigo, !.creado = rec.creado,
                 !.puntos = rec.puntos, !.reglas = rec.reglas, !.tiempo = rec.tiempo,
                 !.nivel = rec.nivel]

\* throw new <kind>(<msg>): the request ends with that error
Fail(r, kind, msg) == rq' = [rq EXCEPT ![r] = Respuesta(rq[r], "failed", kind, msg)]

Goto(r, pc) == rq' = [rq EXCEPT ![r].pc = pc]

Terminado(r) == rq[r].pc \in {"done", "failed"}

PedidoIds == 0 .. (Len(pedidos) + 1)

----------------------------------------------------------------------------
(* Pedido.updateStatus(id, nuevoEstado, userId) *)

\* entry of Pedido.updateStatus: the two validations that precede its first query
UpdateStatusEntry(rec, id, nuevo) ==
    IF ~validateId(id) \/ nuevo \notin ESTADOS
    THEN Respuesta(rec, "failed", "ValidationError", "invalido")
    ELSE [rec EXCEPT !.pc = "u_find", !.pedido = id, !.nuevo = nuevo]

\* what the message of the BusinessLogicError of an illegal transition holds:
\* `${pedidoActual.estado} -> ${nuevoEstado}` and transicionesPermitidas.join(", ")
MensajeTransicion_sinLista(actual, nuevo) ==
    [desde |-> actual, hacia |-> nuevo, permitidas |-> {}]

MensajeTransicion(actual, nuevo) ==
    [desde |-> actual, hacia |-> nuevo, permitidas |-> FLUJO_ESTADOS[actual]]

\* await this.findById(id), then the transition check against FLUJO_ESTADOS
UpdateStatusFindById(r) ==
    /\ rq[r].pc = "u_find"
    /\ LET actual == FIND_BY_ID(rq[r].pedido) IN
         IF actual = NoRow THEN Fail(r, "NotFoundError", "pedido_no_encontrado")
         ELSE IF rq[r].nuevo \notin FLUJO_ESTADOS[actual.estado]
              THEN rq' = [rq EXCEPT ![r] =
                            [Respuesta(rq[r], "failed", "BusinessLogicError",
                                       "transicion_invalida")
                                EXCEPT !.detalle =
                                    MensajeTransicion(actual.estado, rq[r].nuevo)]]
              ELSE rq' = [rq EXCEPT ![r].pc = "u_write", ![r].visto = actual.estado]
    /\ UNCHANGED <<pedidos, stock, vehiculos, stock0, materiales, reloj, cantidad_minima>>

\* a status write that would also give the quantity of a cancelled order back
\* to the stock
UpdateStatusWrite_liberando(r) ==
    /\ rq[r].pc = "u_write"
    /\ pedidos' = [pedidos EXCEPT ![rq[r].pedido].estado = rq[r].nuevo]
    /\ stock' = IF rq[r].nuevo = "cancelado"
                THEN [stock EXCEPT ![pedidos[rq[r].pedido].material_id] =
                                       @ + pedidos[rq[r].pedido].cantidad]
                ELSE stock
    /\ rq' = [rq EXCEPT ![r] =
                Respuesta([rq[r] EXCEPT !.escribio = TRUE], "done", "none", "none")]
    /\ UNCHANGED <<vehiculos, stock0, materiales, reloj, cantidad_minima>>

\* await query(PEDIDOS.UPDATE_STATUS, [id, nuevoEstado]): UPDATE ... WHERE id = $1
UpdateStatusWrite(r) ==
    /\ rq[r].pc = "u_write"
    /\ pedidos' = [pedidos EXCEPT ![rq[r].pedido].estado = rq[r].nuevo]
    /\ rq' = [rq EXCEPT ![r] =
                Respuesta([rq[r] EXCEPT !.escribio = TRUE], "done", "none", "none")]
    /\ UNCHANGED <<stock, vehiculos, stock0, materiales, reloj, cantidad_minima>>

\* changeEstado (PUT /pedidos/:id/estado, body nuevo_estado) calls
\* Pedido.updateStatus
StartChangeEstado(r) ==
    /\ rq[r].pc = "idle"
    /\ \E in \in ((DOMAIN pedidos) \X (ESTADOS \cup {"otro"}))
                    \cup ((PedidoIds \ (DOMAIN pedidos)) \X {"cancelado"}) :
         rq' = [rq EXCEPT ![r] =
                  UpdateStatusEntry([Idle EXCEPT !.op = "changeEstado",
                                                  !.pedido = in[1]], in[1], in[2])]
    /\ UNCHANGED <<pedidos, stock, vehiculos, stock0, materiales, reloj, cantidad_minima>>

----------------------------------------------------------------------------
(* Pedido.confirm(id, userId), called by confirmarPedido *)

StartConfirmar(r) ==
    /\ rq[r].pc = "idle"
    /\ \E id \in PedidoIds :
         rq' = [rq EXCEPT ![r] = [Idle EXCEPT !.op = "confirmar", !.pc = "c_find",
                                               !.pedido = id]]
    /\ UNCHANGED <<pedidos, stock, vehiculos, stock0, materiales, reloj, cantidad_minima>>

\* await this.findById(id), then the estado check
ConfirmFindById(r) ==
    /\ rq[r].pc = "c_find"
    /\ IF ~validateId(rq[r].pedido) THEN Fail(r, "ValidationError", "invalido")
       ELSE LET pedido == FIND_BY_ID(rq[r].pedido) IN
         IF pedido = NoRow THEN Fail(r, "NotFoundError", "pedido_no_encontrado")
         ELSE IF pedido.estado # "pendiente"
              THEN Fail(r, "BusinessLogicError", "no_pendiente")
         ELSE rq' = [rq EXCEPT ![r].pc = "c_check", ![r].visto = pedido.estado,
                               ![r].material = pedido.material_id,
                               ![r].cant = pedido.cantidad]
    /\ UNCHANGED <<pedidos, stock, vehiculos, stock0, materiales, reloj, cantidad_minima>>

\* await query(STOCK.CHECK_AVAILABILITY, [material_id, cantidad])
ConfirmCheckAvailability(r) ==
    /\ rq[r].pc = "c_check"
    /\ IF ~verificar_stock_disponible(rq[r].material, rq[r].cant)
       THEN Fail(r, "BusinessLogicError", "stock_insuficiente")
       ELSE Goto(r, "c_reduce")
    /\ UNCHANGED <<pedidos, stock, vehiculos, stock0, materiales, reloj, cantidad_minima>>

\* await query(STOCK.REDUCE_STOCK, ...), then the call of this.updateStatus
ConfirmReduceStock(r) ==
    /\ rq[r].pc = "c_reduce"
    /\ LET m == rq[r].material
           c == rq[r].cant IN
         IF REDUCE_STOCK_where(stock[m], c)
         THEN /\ stock' = [stock EXCEPT ![m] = stock[m] - c]
              /\ rq' = [rq EXCEPT ![r] =
                          UpdateStatusEntry([rq[r] EXCEPT !.redujo = TRUE],
                                            rq[r].pedido, "confirmado")]
         ELSE /\ Fail(r, "BusinessLogicError", "condicion_de_carrera")
              /\ UNCHANGED <<stock, materiales>>
    /\ UNCHANGED <<pedidos, vehiculos, stock0, materiales, reloj, cantidad_minima>>

----------------------------------------------------------------------------
(* Stock.updateQuantity, Stock.increaseStock, Stock.reduceStock *)

MaterialIds == Materials \cup {NoId, 3}

\* STOCK.FIND_BY_MATERIAL: is there a stock row of the material
StockExists(m) == m \in DOMAIN stock

\* entry of Stock.updateQuantity: the validations that precede its first query
UpdateQuantityEntry(rec, m, nuevaCantidad) ==
    IF ~validateId(m) \/ ~validateQuantity(nuevaCantidad)
    THEN Respuesta(rec, "failed", "ValidationError", "invalido")
    ELSE [rec EXCEPT !.pc = "q_material", !.material = m, !.nueva = nuevaCantidad]

\* updateStock (PUT /stock/:material_id) calls Stock.updateQuantity
StartUpdateQuantity(r) ==
    /\ rq[r].pc = "idle"
    /\ \E m \in MaterialIds, c \in 0 .. MaxStock :
         rq' = [rq EXCEPT ![r] =
                  UpdateQuantityEntry([Idle EXCEPT !.op = "updateQuantity"], m, c)]
    /\ UNCHANGED <<pedidos, stock, vehiculos, stock0, materiales, reloj, cantidad_minima>>

\* await query(MATERIALES.FIND_BY_ID, ...)
UpdateQuantityFindMaterial(r) ==
    /\ rq[r].pc = "q_material"
    /\ IF rq[r].material \notin DOMAIN materiales
       THEN Fail(r, "NotFoundError", "material_no_encontrado")
       ELSE Goto(r, "q_find")
    /\ UNCHANGED <<pedidos, stock, vehiculos, stock0, materiales, reloj, cantidad_minima>>

\* await this.findByMaterial(materialId): the stock before the update
UpdateQuantityFindStock(r) ==
    /\ rq[r].pc = "q_find"
    /\ IF ~StockExists(rq[r].material)
       THEN Fail(r, "NotFoundError", "stock_no_encontrado")
       ELSE Goto(r, "q_write")
    /\ UNCHANGED <<pedidos, stock, vehiculos, stock0, materiales, reloj, cantidad_minima>>

\* await query(STOCK.UPDATE_QUANTITY, ...): SET cantidad_disponible = $2
UpdateQuantityWrite(r) ==
    /\ rq[r].pc = "q_write"
    /\ stock' = [stock EXCEPT ![rq[r].material] = rq[r].nueva]
    /\ rq' = [rq EXCEPT ![r] =
                Respuesta([rq[r] EXCEPT !.escribio = TRUE], "done", "none", "none")]
    /\ UNCHANGED <<pedidos, vehiculos, stock0, materiales, reloj, cantidad_minima>>

StartIncreaseStock(r) ==
    /\ rq[r].pc = "idle"
    /\ \E m \in MaterialIds, c \in -1 .. MaxQty :
         rq' = [rq EXCEPT ![r] = [Idle EXCEPT !.op = "increaseStock", !.pc = "i_find",
                                               !.material = m, !.cant = c]]
    /\ UNCHANGED <<pedidos, stock, vehiculos, stock0, materiales, reloj, cantidad_minima>>

\* await this.findByMaterial(materialId), the sum, and the call of updateQuantity
IncreaseStockFind(r) ==
    /\ rq[r].pc = "i_find"
    /\ LET m == rq[r].material IN
         IF ~validateId(m) THEN Fail(r, "ValidationError", "invalido")
         ELSE IF ~StockExists(m) THEN Fail(r, "NotFoundError", "stock_no_encontrado")
         ELSE rq' = [rq EXCEPT ![r] =
                        UpdateQuantityEntry([rq[r] EXCEPT !.leido = stock[m]],
                                            m, stock[m] + rq[r].cant)]
    /\ UNCHANGED <<pedidos, stock, vehiculos, stock0, materiales, reloj, cantidad_minima>>

StartReduceStock(r) ==
    /\ rq[r].pc = "idle"
    /\ \E m \in MaterialIds, c \in 0 .. MaxQty :
         rq' = [rq EXCEPT ![r] =
                  IF ~validateId(m) \/ ~validateQuantity(c)
                  THEN [Idle EXCEPT !.op = "reduceStock", !.pc = "failed",
                                    !.err = "ValidationError", !.msg = "invalido"]
                  ELSE [Idle EXCEPT !.op = "reduceStock", !.pc = "r_check",
                                    !.material = m, !.cant = c]]
    /\ UNCHANGED <<pedidos, stock, vehiculos, stock0, materiales, reloj, cantidad_minima>>

\* Stock.checkAvailability: await query(STOCK.CHECK_AVAILABILITY, ...)
ReduceStockCheck(r) ==
    /\ rq[r].pc = "r_check"
    /\ rq' = [rq EXCEPT ![r].pc = "r_info",
                        ![r].disponible =
                            verificar_stock_disponible(rq[r].material, rq[r].cant)]
    /\ UNCHANGED <<pedidos, stock, vehiculos, stock0, materiales, reloj, cantidad_minima>>

\* Stock.checkAvailability: await this.findByMaterial(...), then the caller's check
ReduceStockInfo(r) ==
    /\ rq[r].pc = "r_info"
    /\ IF ~rq[r].disponible
       THEN Fail(r, "BusinessLogicError", "stock_insuficiente")
       ELSE Goto(r, "r_reduce")
    /\ UNCHANGED <<pedidos, stock, vehiculos, stock0, materiales, reloj, cantidad_minima>>

\* await query(STOCK.REDUCE_STOCK, ...)
ReduceStockUpdate(r) ==
    /\ rq[r].pc = "r_reduce"
    /\ LET m == rq[r].material
           c == rq[r].cant IN
         IF StockExists(m) /\ REDUCE_STOCK_where(stock[m], c)
         THEN /\ stock' = [stock EXCEPT ![m] = stock[m] - c]
              /\ rq' = [rq EXCEPT ![r] =
                          Respuesta([rq[r] EXCEPT !.redujo = TRUE], "done", "none", "none")]
         ELSE /\ Fail(r, "BusinessLogicError", "condicion_de_carrera")
              /\ UNCHANGED <<stock, materiales>>
    /\ UNCHANGED <<pedidos, vehiculos, stock0, materiales, reloj, cantidad_minima>>

----------------------------------------------------------------------------
(* Vehiculo: the pool of eligible vehicles and the selection rules *)

VehiculoIds == Vehicles \cup {NoId, 3}

\* the vehicles of S in the order of ORDER BY capacidad ASC (id breaks ties)
RECURSIVE PorCapacidad(_)
PorCapacidad(S) ==
    IF S = {} THEN <<>>
    ELSE LET v == CHOOSE x \in S : \A y \in S :
                    \/ vehiculos[x].capacidad < vehiculos[y].capacidad
                    \/ /\ vehiculos[x].capacidad = vehiculos[y].capacidad
                       /\ x <= y
         IN <<v>> \o PorCapacidad(S \ {v})

\* obtener_vehiculos_disponibles(capacidad_minima): the stored function behind
\* VEHICULOS.GET_AVAILABLE_BY_CAPACITY
obtener_vehiculos_disponibles(capacidadMinima) ==
    PorCapacidad({v \in DOMAIN vehiculos :
                    /\ vehiculos[v].estado = "disponible"
                    /\ vehiculos[v].capacidad >= capacidadMinima})

\* REGLA 1 of aplicarReglasSeleccion: ratio_utilizacion = cantidad / capacidad
PuntosUtilizacion(cantidad, capacidad) ==
    IF 10 * cantidad >= 7 * capacidad /\ 100 * cantidad <= 95 * capacidad THEN 10
    ELSE IF 2 * cantidad >= capacidad THEN 7
    ELSE IF 10 * cantidad >= 3 * capacidad THEN 4
    ELSE 1

\* Math.min(...vehiculosEvaluados.map((v) => v.capacidad))
CapacidadMinima(lista) ==
    CHOOSE c \in {vehiculos[lista[i]].capacidad : i \in DOMAIN lista} :
        \A i \in DOMAIN lista : c <= vehiculos[lista[i]].capacidad

\* a bonus for the head of the list only
PuntosMenorCapacidad_soloElPrimero(v, lista) == IF v = lista[1] THEN 5 ELSE 0

\* REGLA 2
PuntosMenorCapacidad(v, lista) ==
    IF vehiculos[v].capacidad = CapacidadMinima(lista) THEN 5 ELSE 0

\* a rule whose first band reaches 5 km
PuntosProximidad_hastaCinco(v, pedido) ==
    IF pedido.coords /\ vehiculos[v].ubicacion
    THEN IF vehiculos[v].distancia <= 5 THEN 8
         ELSE IF vehiculos[v].distancia < 15 THEN 5
         ELSE 2
    ELSE 0

\* REGLA 3
PuntosProximidad(v, pedido) ==
    IF pedido.coords /\ vehiculos[v].ubicacion
    THEN IF vehiculos[v].distancia < 5 THEN 8
         ELSE IF vehiculos[v].distancia < 15 THEN 5
         ELSE 2
    ELSE 0

\* an age measured against a clock that advances as requests end
PuntosActualizacion_relojQueAvanza(v) ==
    IF vehiculos[v].ultima /\ \A r \in Reqs : rq[r].pc \notin {"done", "failed"}
    THEN 3 ELSE 0

\* REGLA 4: minutos is the age of the last position at the clock of the run
PuntosActualizacion(v) ==
    IF vehiculos[v].ultima
    THEN IF vehiculos[v].minutos < 30 THEN 3
         ELSE IF vehiculos[v].minutos < 120 THEN 1
         ELSE 0
    ELSE 0

puntuacion(v, lista, pedido) ==
    PuntosUtilizacion(pedido.cantidad, vehiculos[v].capacidad)
    + PuntosMenorCapacidad(v, lista) + PuntosProximidad(v, pedido)
    + PuntosActualizacion(v)

\* an insertion that puts a vehicle before the vehicles of equal puntuacion
RECURSIVE Insertar_antesDeLosIguales(_, _, _, _)
Insertar_antesDeLosIguales(v, ordenados, lista, pedido) ==
    IF ordenados = <<>> THEN <<v>>
    ELSE IF puntuacion(Head(ordenados), lista, pedido) > puntuacion(v, lista, pedido)
         THEN <<Head(ordenados)>>
                \o Insertar_antesDeLosIguales(v, Tail(ordenados), lista, pedido)
         ELSE <<v>> \o ordenados

\* one step of the stable sort with (a, b) => b.puntuacion - a.puntuacion: v
\* goes behind every vehicle that does not sort after it
RECURSIVE Insertar(_, _, _, _)
Insertar(v, ordenados, lista, pedido) ==
    IF ordenados = <<>> THEN <<v>>
    ELSE IF puntuacion(Head(ordenados), lista, pedido) - puntuacion(v, lista, pedido) >= 0
         THEN <<Head(ordenados)>> \o Insertar(v, Tail(ordenados), lista, pedido)
         ELSE <<v>> \o ordenados

\* vehiculosEvaluados.sort(...) of the first k vehicles of the list
RECURSIVE OrdenarPorPuntuacion(_, _, _)
OrdenarPorPuntuacion(k, lista, pedido) ==
    IF k = 0 THEN <<>>
    ELSE Insertar(lista[k], OrdenarPorPuntuacion(k - 1, lista, pedido), lista, pedido)

\* Vehiculo.aplicarReglasSeleccion: vehiculosEvaluados[0] after the sort
aplicarReglasSeleccion(lista, pedido) ==
    OrdenarPorPuntuacion(Len(lista), lista, pedido)[1]

\* reglas_aplicadas of a vehicle, in the order the rules push them
ReglasAplicadas(v, lista, pedido) ==
    LET u == PuntosUtilizacion(pedido.cantidad, vehiculos[v].capacidad)
        p == PuntosProximidad(v, pedido)
        a == PuntosActualizacion(v) IN
    <<CASE u = 10 -> "Utilizacion optima de capacidad"
        [] u = 7 -> "Utilizacion aceptable de capacidad"
        [] u = 4 -> "Utilizacion baja de capacidad"
        [] OTHER -> "Sobredimensionado para el pedido">>
    \o (IF PuntosMenorCapacidad(v, lista) = 5
        THEN <<"Vehiculo de menor capacidad disponible">> ELSE <<>>)
    \o (CASE p = 8 -> <<"Muy cerca del destino">>
          [] p = 5 -> <<"Relativamente cerca del destino">>
          [] p = 2 -> <<"Distancia considerable al destino">>
          [] OTHER -> <<>>)
    \o (CASE a = 3 -> <<"Ubicacion recientemente actualizada">>
          [] a = 1 -> <<"Ubicacion actualizada en las ultimas 2 horas">>
          [] OTHER -> <<>>)

\* the zone names calcularTiempoEstimado looks for in the lowercased address
ZONAS_PERIFERICAS == {"sacaba", "quillacollo"}

ZONAS_CENTRALES == {"cercado", "centro"}

\* Math.ceil(a / b) for whole a >= 0 and b > 0
RECURSIVE MathCeil(_, _)
MathCeil(a, b) == IF a <= 0 THEN 0 ELSE 1 + MathCeil(a - b, b)

\* a schedule whose lunch window opens at 9 and is tested before the rush hours
calcularTiempoEstimado_almuerzoPrimero(capacidad, pedidoData, hora) ==
    45 + (IF pedidoData.direccion_entrega \cap ZONAS_PERIFERICAS # {} THEN 15
          ELSE IF pedidoData.direccion_entrega \cap ZONAS_CENTRALES # {} THEN 5
          ELSE 0)
       + (IF hora >= 9 /\ hora <= 14 THEN 10
          ELSE IF (hora >= 7 /\ hora <= 9) \/ (hora >= 17 /\ hora <= 19) THEN 20
          ELSE 0)
       + (IF capacidad > 20 THEN 10 ELSE IF capacidad < 10 THEN 0 - 5 ELSE 0)
       + MathCeil(pedidoData.cantidad, 5) * 2

\* Vehiculo.calcularTiempoEstimado(vehiculo, pedidoData) for a vehicle of the
\* given capacidad, with new Date().getHours() = hora
calcularTiempoEstimado(capacidad, pedidoData, hora) ==
    LET zona == IF pedidoData.direccion_entrega # {}
                THEN IF pedidoData.direccion_entrega \cap ZONAS_PERIFERICAS # {} THEN 15
                     ELSE IF pedidoData.direccion_entrega \cap ZONAS_CENTRALES # {} THEN 5
                     ELSE 0
                ELSE 0
        pico == IF (hora >= 7 /\ hora <= 9) \/ (hora >= 17 /\ hora <= 19) THEN 20
                ELSE IF hora >= 12 /\ hora <= 14 THEN 10
                ELSE 0
        porCapacidad == IF capacidad > 20 THEN 10
                        ELSE IF capacidad < 10 THEN 0 - 5
                        ELSE 0
        tiempoBase == 45 + zona + pico + porCapacidad
        tiempoCarga == MathCeil(pedidoData.cantidad, 5) * 2
    IN tiempoBase + tiempoCarga

\* vehiculosDisponibles[0] of the two controllers
PrimeroDeLaLista(lista, pedido) == lista[1]

----------------------------------------------------------------------------
(* asignarVehiculo (PUT /pedidos/:id/asignar-vehiculo) and                 *)
(* asignarVehiculoAutomatico (POST /vehiculos/asignar-automatico)          *)

StartAsignarVehiculo(r) ==
    /\ rq[r].pc = "idle"
    /\ \E in \in ((DOMAIN pedidos) \X VehiculoIds)
                    \cup ((PedidoIds \ (DOMAIN pedidos)) \X {NoId}) :
         rq' = [rq EXCEPT ![r] = [Idle EXCEPT !.op = "asignarVehiculo", !.pc = "a_find",
                                               !.pedido = in[1], !.vehiculo_id = in[2]]]
    /\ UNCHANGED <<pedidos, stock, vehiculos, stock0, materiales, reloj, cantidad_minima>>

StartAsignarVehiculoAutomatico(r) ==
    /\ rq[r].pc = "idle"
    /\ \E id \in PedidoIds :
         rq' = [rq EXCEPT ![r] =
                  IF ~validateId(id)
                  THEN [Idle EXCEPT !.op = "asignarVehiculoAutomatico", !.pc = "failed",
                                    !.err = "ValidationError", !.msg = "invalido"]
                  ELSE [Idle EXCEPT !.op = "asignarVehiculoAutomatico", !.pc = "a_find",
                                    !.pedido = id]]
    /\ UNCHANGED <<pedidos, stock, vehiculos, stock0, materiales, reloj, cantidad_minima>>

\* await Pedido.findById(id), then the estado check
AsignarFindPedido(r) ==
    /\ rq[r].pc = "a_find"
    /\ IF ~validateId(rq[r].pedido) THEN Fail(r, "ValidationError", "invalido")
       ELSE LET pedido == FIND_BY_ID(rq[r].pedido) IN
         IF pedido = NoRow THEN Fail(r, "NotFoundError", "pedido_no_encontrado")
         ELSE IF pedido.estado # "confirmado"
              THEN Fail(r, "BusinessLogicError", "no_confirmado")
         ELSE rq' = [rq EXCEPT ![r].pc = IF rq[r].vehiculo_id # NoId
                                         THEN "a_vehiculo" ELSE "a_lista",
                               ![r].visto = pedido.estado,
                               ![r].cant = pedido.cantidad]
    /\ UNCHANGED <<pedidos, stock, vehiculos, stock0, materiales, reloj, cantidad_minima>>

\* manual: await Vehiculo.findById(vehiculo_id), the two checks, then the entry
\* of Vehiculo.updateStatus
AsignarFindVehiculo(r) ==
    /\ rq[r].pc = "a_vehiculo"
    /\ LET vid == rq[r].vehiculo_id IN
         IF vid \notin DOMAIN vehiculos \/ vehiculos[vid].estado # "disponible"
         THEN Fail(r, "BusinessLogicError", "vehiculo_no_disponible")
         ELSE IF vehiculos[vid].capacidad < rq[r].cant
              THEN Fail(r, "BusinessLogicError", "sin_capacidad")
              ELSE rq' = [rq EXCEPT ![r].pc = "v_find", ![r].veh = vid]
    /\ UNCHANGED <<pedidos, stock, vehiculos, stock0, materiales, reloj, cantidad_minima>>

\* automatic: await Vehiculo.findAvailableByCapacity(pedido.cantidad), the
\* selection, then the entry of Vehiculo.updateStatus
AsignarFindAvailable(r) ==
    /\ rq[r].pc = "a_lista"
    /\ IF ~validateVehicleCapacity(rq[r].cant)
       THEN Fail(r, "ValidationError", "invalido")
       ELSE LET vehiculosDisponibles == obtener_vehiculos_disponibles(rq[r].cant) IN
         IF Len(vehiculosDisponibles) = 0
         THEN Fail(r, "BusinessLogicError", "sin_vehiculos")
         ELSE rq' = [rq EXCEPT ![r].pc = "v_find",
                               ![r].lista = vehiculosDisponibles,
                               ![r].veh = PrimeroDeLaLista(vehiculosDisponibles,
                                                           FIND_BY_ID(rq[r].pedido))]
    /\ UNCHANGED <<pedidos, stock, vehiculos, stock0, materiales, reloj, cantidad_minima>>

\* Vehiculo.updateStatus: await this.findById(id)
VehiculoUpdateStatusFind(r) ==
    /\ rq[r].pc = "v_find"
    /\ IF rq[r].veh \notin DOMAIN vehiculos
       THEN Fail(r, "NotFoundError", "vehiculo_no_encontrado")
       ELSE Goto(r, "v_write")
    /\ UNCHANGED <<pedidos, stock, vehiculos, stock0, materiales, reloj, cantidad_minima>>

\* Vehiculo.updateStatus: await query(VEHICULOS.UPDATE_STATUS, [id, "en_uso"])
\* (UPDATE vehiculos SET estado = $2 WHERE id = $1),
\* then the entry of Pedido.updateStatus(id, "asignado")
VehiculoUpdateStatusWrite(r) ==
    /\ rq[r].pc = "v_write"
    /\ LET v == rq[r].veh IN
         /\ vehiculos' = [vehiculos EXCEPT ![v].estado = "en_uso"]
         /\ rq' = [rq EXCEPT ![r] =
                      UpdateStatusEntry([rq[r] EXCEPT !.flip = TRUE],
                                        rq[r].pedido, "asignado")]
    /\ UNCHANGED <<pedidos, stock, stock0, materiales, reloj, cantidad_minima>>

----------------------------------------------------------------------------
(* Initial states *)

Materiales0 == [m \in Materials |-> [activo |-> TRUE, precio_por_unidad |-> m + 1]]

\* row id of pedidos, created by Pedido.create for q units of material m;
\* coords says whether direccion_lat / direccion_lng are set; direccion_entrega
\* is the set of zone names the lowercased address contains
Fila(id, e, q, m, coords) ==
    [estado |-> e, cantidad |-> q, material_id |-> m, coords |-> coords,
     direccion_entrega |-> {},
     codigo_seguimiento |-> CodigoDe(id),
     precio_total |-> q * Materiales0[m].precio_por_unidad]

\* the tables of orders: n pendiente orders
PedidoRows(n) ==
    {[id \in 1 .. n |-> Fila(id, "pendiente", q[id], m[id], FALSE)] :
        q \in [1 .. n -> 1 .. MaxQty], m \in [1 .. n -> Materials]}

\* a vehicle without a last known position
SinUbicacion(e, c) ==
    [estado |-> e, capacidad |-> c, ubicacion |-> FALSE, distancia |-> 0,
     ultima |-> FALSE, minutos |-> 0]

\* a vehicle with a position: distancia km from the delivery address
\* (calculateDistance), reported minutos ago
ConUbicacion(e, c, km, min) ==
    [estado |-> e, capacidad |-> c, ubicacion |-> TRUE, distancia |-> km,
     ultima |-> TRUE, minutos |-> min]

VehiculoRows0 == [v \in Vehicles |-> SinUbicacion("disponible", MaxQty)]

InitStock ==
    /\ pedidos \in PedidoRows(1)
    /\ materiales = Materiales0
    /\ stock \in [Materials -> 0 .. MaxStock]
    /\ stock0 = stock
    /\ vehiculos = VehiculoRows0
    /\ rq = [r \in Reqs |-> Idle]
    /\ cantidad_minima = [m \in Materials |-> 1]
    /\ reloj = 8

InitConfirm ==
    /\ pedidos \in PedidoRows(2)
    /\ materiales = Materiales0
    /\ stock \in [Materials -> 0 .. MaxStock]
    /\ stock0 = stock
    /\ vehiculos = VehiculoRows0
    /\ rq = [r \in Reqs |-> Idle]
    /\ cantidad_minima = [m \in Materials |-> 1]
    /\ reloj = 8

NextConfirm ==
    \E r \in Reqs :
        \/ StartConfirmar(r)
        \/ ConfirmFindById(r)
        \/ ConfirmCheckAvailability(r)
        \/ ConfirmReduceStock(r)
        \/ UpdateStatusFindById(r)
        \/ UpdateStatusWrite(r)

SpecConfirm == InitConfirm /\ [][NextConfirm]_vars

----------------------------------------------------------------------------
(* Claims about Pedido.confirm *)

Confirmo(r) == rq[r].op = "confirmar" /\ Terminado(r) /\ rq[r].pedido \in DOMAIN pedidos

\* two finished confirm calls for two different orders of one material, each
\* quantity alone within the initial stock, both together above it
Carrera(a, b) ==
    /\ a # b /\ Confirmo(a) /\ Confirmo(b)
    /\ rq[a].pedido # rq[b].pedido
    /\ pedidos[rq[a].pedido].material_id = pedidos[rq[b].pedido].material_id
    /\ LET m == pedidos[rq[a].pedido].material_id
           qa == pedidos[rq[a].pedido].cantidad
           qb == pedidos[rq[b].pedido].cantidad IN
         qa <= stock0[m] /\ qb <= stock0[m] /\ qa + qb > stock0[m]

\* C2: when two confirm calls for two different pendiente orders of the same
\* material have both ended, each quantity fitting the stock alone and their sum
\* exceeding it, exactly one of them succeeded, the other failed with
\* BusinessLogicError, and the stock is the initial stock minus the quantity of
\* the order that succeeded (which is now confirmado).
C2_ExactlyOneReservation ==
    \A a, b \in Reqs :
        Carrera(a, b) =>
            \E w \in {a, b} : \E l \in {a, b} \ {w} :
                /\ rq[w].pc = "done"
                /\ rq[l].pc = "failed" /\ rq[l].err = "BusinessLogicError"
                /\ pedidos[rq[w].pedido].estado = "confirmado"
                /\ pedidos[rq[l].pedido].estado = "pendiente"
                /\ LET m == pedidos[rq[w].pedido].material_id IN
                     stock[m] = stock0[m] - pedidos[rq[w].pedido].cantidad

\* the race was lost at the conditional UPDATE, after the re-check had passed
C2_Witness ==
    \E a, b \in Reqs :
        /\ Carrera(a, b)
        /\ rq[a].pc = "done"
        /\ rq[b].msg = "condicion_de_carrera"

\* C4 (as claimed): of two finished confirm calls on the same order at most one
\* succeeded, and the stock of the order's material went down by the order's
\* quantity at most once.
C4_ConfirmTwiceDecrementsOnce ==
    \A a, b \in Reqs :
        (a # b /\ Confirmo(a) /\ Confirmo(b) /\ rq[a].pedido = rq[b].pedido) =>
            LET o == pedidos[rq[a].pedido] IN
              /\ ~(rq[a].pc = "done" /\ rq[b].pc = "done")
              /\ stock0[o.material_id] - stock[o.material_id] <= o.cantidad

\* C10: a step of Pedido.confirm that finds the order not pendiente, or finds the
\* quantity above cantidad_disponible at the re-check or at the conditional
\* UPDATE, ends the call with BusinessLogicError and changes neither an order
\* nor the stock; the call had written nothing before (and, when the reservation
\* is what failed, it had read the order as pendiente).
C10_ConfirmRejects ==
    [][\A r \in Reqs :
        LET id == rq[r].pedido
            noPendiente == /\ rq[r].pc = "c_find" /\ id \in DOMAIN pedidos
                           /\ pedidos[id].estado # "pendiente"
            sinStock == /\ rq[r].pc \in {"c_check", "c_reduce"}
                        /\ rq[r].cant > stock[rq[r].material]
        IN  ((noPendiente \/ sinStock) /\ rq'[r] # rq[r]) =>
                /\ rq'[r].pc = "failed" /\ rq'[r].err = "BusinessLogicError"
                /\ ~rq'[r].redujo /\ ~rq'[r].escribio
                /\ pedidos' = pedidos /\ stock' = stock
                /\ (sinStock => rq[r].cant = pedidos[id].cantidad)
    ]_vars

\* a confirm call was rejected by the conditional UPDATE
C10_Witness ==
    \E r \in Reqs :
        /\ rq[r].op = "confirmar" /\ rq[r].pc = "failed"
        /\ rq[r].msg = "condicion_de_carrera"
        /\ ~rq[r].redujo /\ pedidos[rq[r].pedido].estado = "pendiente"

----------------------------------------------------------------------------
(* The stock ledger under concurrent reservations, restocking and admin updates *)

NextStock ==
    \E r \in Reqs :
        \/ StartConfirmar(r)
        \/ ConfirmFindById(r)
        \/ ConfirmCheckAvailability(r)
        \/ ConfirmReduceStock(r)
        \/ UpdateStatusFindById(r)
        \/ UpdateStatusWrite(r)
        \/ StartReduceStock(r)
        \/ ReduceStockCheck(r)
        \/ ReduceStockInfo(r)
        \/ ReduceStockUpdate(r)
        \/ StartIncreaseStock(r)
        \/ IncreaseStockFind(r)
        \/ StartUpdateQuantity(r)
        \/ UpdateQuantityFindMaterial(r)
        \/ UpdateQuantityFindStock(r)
        \/ UpdateQuantityWrite(r)

SpecStock == InitStock /\ [][NextStock]_vars

\* C1: the cantidad_disponible of every material is >= 0 in every reachable
\* state, for every interleaving of reservations (Stock.reduceStock, the
\* reduction of Pedido.confirm), Stock.increaseStock and Stock.updateQuantity.
C1_StockNeverNegative == \A m \in DOMAIN stock : stock[m] >= 0

\* two reservations of one material raced: one took the stock, the other was
\* rejected by the conditional UPDATE because what was left did not cover it
C1_Witness ==
    \E a, b \in Reqs :
        /\ a # b /\ rq[a].redujo /\ rq[b].msg = "condicion_de_carrera"
        /\ rq[a].material = rq[b].material
        /\ stock[rq[b].material] < rq[b].cant

----------------------------------------------------------------------------
(* Vehicle assignment: two concurrent assignment requests over two orders   *)
(* and two vehicles                                                         *)

InitAssign ==
    /\ \E e \in ESTADOS, q1 \in 1 .. MaxQty,
          q2 \in (1 .. MaxQty) \cup {CAPACIDAD_MAXIMA + 1},
          c1 \in 1 .. MaxQty, e2 \in {"disponible", "en_uso"}, fix \in BOOLEAN :
         /\ pedidos = <<Fila(1, e, q1, 1, fix), Fila(2, "confirmado", q2, 1, FALSE)>>
         /\ vehiculos = <<SinUbicacion("disponible", c1),
                          IF fix THEN ConUbicacion(e2, 2 * MaxQty, 3, 10)
                                 ELSE SinUbicacion(e2, 2 * MaxQty)>>
    /\ stock = [m \in Materials |-> MaxStock]
    /\ stock0 = stock
    /\ materiales = Materiales0
    /\ rq = [r \in Reqs |-> Idle]
    /\ cantidad_minima = [m \in Materials |-> 1]
    /\ reloj = 8

NextAssign ==
    \E r \in Reqs :
        \/ StartAsignarVehiculo(r)
        \/ StartAsignarVehiculoAutomatico(r)
        \/ AsignarFindPedido(r)
        \/ AsignarFindVehiculo(r)
        \/ AsignarFindAvailable(r)
        \/ VehiculoUpdateStatusFind(r)
        \/ VehiculoUpdateStatusWrite(r)
        \/ UpdateStatusFindById(r)
        \/ UpdateStatusWrite(r)

SpecAssign == InitAssign /\ [][NextAssign]_vars

Asigna(r) == rq[r].op \in {"asignarVehiculo", "asignarVehiculoAutomatico"}

\* C6 (as claimed): two assignment requests that both succeeded for two
\* different orders did not take the same vehicle.
C6_OneOrderPerVehicle ==
    \A a, b \in Reqs :
        (/\ a # b /\ Asigna(a) /\ Asigna(b)
         /\ rq[a].pc = "done" /\ rq[b].pc = "done"
         /\ rq[a].pedido # rq[b].pedido)
            => rq[a].veh # rq[b].veh

\* C8 (as claimed): the vehicle an assignment without vehiculo_id flips to en_uso
\* is the one aplicarReglasSeleccion selects from the eligible list it read.
C8_AutomaticUsesEngine ==
    \A r \in Reqs :
        (Asigna(r) /\ rq[r].vehiculo_id = NoId /\ rq[r].flip)
            => rq[r].veh = aplicarReglasSeleccion(rq[r].lista, pedidos[rq[r].pedido])

\* C9: an assignment step that finds the order in a status other than confirmado
\* rejects the call and changes no order and no vehicle, the call having written
\* nothing; a call that succeeds has read the order as confirmado, and at its
\* last step the selected vehicle is en_uso and the order is asignado.
C9_AssignRequiresConfirmado ==
    [][\A r \in Reqs :
        LET id == rq[r].pedido IN
        /\ (/\ rq[r].pc = "a_find" /\ id \in DOMAIN pedidos
            /\ pedidos[id].estado # "confirmado" /\ rq'[r] # rq[r])
              => /\ rq'[r].pc = "failed" /\ rq'[r].err = "BusinessLogicError"
                 /\ ~rq'[r].flip /\ ~rq'[r].escribio
                 /\ pedidos' = pedidos /\ vehiculos' = vehiculos
        /\ (Asigna(r) /\ rq[r].pc # "done" /\ rq'[r].pc = "done")
              => /\ rq[r].visto = "confirmado"
                 /\ rq'[r].flip
                 /\ vehiculos'[rq[r].veh].estado = "en_uso"
                 /\ pedidos'[id].estado = "asignado"
    ]_vars

\* one assignment succeeded and another was rejected for an order that is not
\* confirmado
C9_Witness ==
    \E a, b \in Reqs :
        /\ Asigna(a) /\ rq[a].pc = "done" /\ vehiculos[rq[a].veh].estado = "en_uso"
        /\ pedidos[rq[a].pedido].estado = "asignado"
        /\ Asigna(b) /\ rq[b].msg = "no_confirmado" /\ ~rq[b].flip

----------------------------------------------------------------------------
(* Pedido.create(orderData, clienteId), called by createPedido, and         *)
(* generateUniqueTrackingCode                                               *)

\* validateOrderData: material_id present, cantidad a valid quantity, a valid
\* direccion_entrega (the optional fields are left out of the requests)
validateOrderData_sinValidar(material_id, cantidad, direccion) == TRUE

validateOrderData(material_id, cantidad, direccion) ==
    material_id # NoId /\ validateQuantity(cantidad) /\ direccion

\* the unique constraint on pedidos.codigo_seguimiento: may a row with this
\* code be inserted
codigo_seguimiento_unico(codigo) ==
    \A o \in DOMAIN pedidos : pedidos[o].codigo_seguimiento # codigo

\* the column default of pedidos.estado
estado_por_defecto == "pendiente"

\* the synchronous start of Pedido.create: validateOrderData, validateId(clienteId)
StartCreate(r) ==
    /\ rq[r].pc = "idle"
    /\ \E in \in (Materials \X (1 .. MaxQty) \X {TRUE} \X {1})
                    \cup {<<NoId, 1, TRUE, 1>>, <<3, 1, TRUE, 1>>, <<1, 0, TRUE, 1>>,
                          <<2, 0, TRUE, 1>>, <<1, 1, FALSE, 1>>, <<1, 1, TRUE, NoId>>} :
         rq' = [rq EXCEPT ![r] =
                  IF ~validateOrderData(in[1], in[2], in[3]) \/ ~validateId(in[4])
                  THEN Respuesta([Idle EXCEPT !.op = "create"],
                                 "failed", "ValidationError", "invalido")
                  ELSE [Idle EXCEPT !.op = "create", !.pc = "n_material",
                                    !.material = in[1], !.cant = in[2]]]
    /\ UNCHANGED <<pedidos, stock, vehiculos, stock0, materiales, reloj, cantidad_minima>>

\* await query(MATERIALES.FIND_BY_ID, ...): the material must exist and be activo
CreateFindMaterial(r) ==
    /\ rq[r].pc = "n_material"
    /\ IF rq[r].material \notin DOMAIN materiales
          \/ ~materiales[rq[r].material].activo
       THEN Fail(r, "NotFoundError", "material_no_disponible")
       ELSE rq' = [rq EXCEPT ![r].pc = "n_check",
                             ![r].precio = materiales[rq[r].material].precio_por_unidad]
    /\ UNCHANGED <<pedidos, stock, vehiculos, stock0, materiales, reloj, cantidad_minima>>

\* await query(STOCK.CHECK_AVAILABILITY, ...): the advisory check
CreateCheckAvailability(r) ==
    /\ rq[r].pc = "n_check"
    /\ IF ~verificar_stock_disponible(rq[r].material, rq[r].cant)
       THEN Fail(r, "BusinessLogicError", "stock_insuficiente")
       ELSE Goto(r, "n_codigo")
    /\ UNCHANGED <<pedidos, stock, vehiculos, stock0, materiales, reloj, cantidad_minima>>

\* await generateUniqueTrackingCode(): one SELECT, then the code is formatted
generateUniqueTrackingCode(r) ==
    /\ rq[r].pc = "n_codigo"
    /\ rq' = [rq EXCEPT ![r].pc = "n_insert", ![r].codigo = CodigoDe(next_number)]
    /\ UNCHANGED <<pedidos, stock, vehiculos, stock0, materiales, reloj, cantidad_minima>>

\* an INSERT that would also take the quantity from the stock
CreateInsert_conReserva(r) ==
    /\ rq[r].pc = "n_insert"
    /\ pedidos' = Append(pedidos,
                         [estado |-> estado_por_defecto, cantidad |-> rq[r].cant,
                          material_id |-> rq[r].material, coords |-> FALSE, direccion_entrega |-> {},
                          codigo_seguimiento |-> rq[r].codigo,
                          precio_total |-> rq[r].cant * rq[r].precio])
    /\ stock' = [stock EXCEPT ![rq[r].material] = IF @ >= rq[r].cant THEN @ - rq[r].cant ELSE 0]
    /\ rq' = [rq EXCEPT ![r] = Respuesta([rq[r] EXCEPT !.creado = Len(pedidos) + 1],
                                         "done", "none", "none")]
    /\ UNCHANGED <<vehiculos, stock0, materiales, reloj, cantidad_minima>>

\* await query(PEDIDOS.CREATE, ...): the INSERT; a violated unique constraint
\* is thrown by the driver as error 23505
CreateInsert(r) ==
    /\ rq[r].pc = "n_insert"
    /\ IF codigo_seguimiento_unico(rq[r].codigo)
       THEN /\ pedidos' = Append(pedidos,
                                 [estado |-> estado_por_defecto, cantidad |-> rq[r].cant,
                                  material_id |-> rq[r].material, coords |-> FALSE, direccion_entrega |-> {},
                                  codigo_seguimiento |-> rq[r].codigo,
                                  precio_total |-> rq[r].cant * rq[r].precio])
            /\ rq' = [rq EXCEPT ![r] =
                        Respuesta([rq[r] EXCEPT !.creado = Len(pedidos) + 1],
                                  "done", "none", "none")]
       ELSE /\ Fail(r, "DatabaseError", "23505")
            /\ UNCHANGED <<pedidos, reloj, cantidad_minima>>
    /\ UNCHANGED <<stock, vehiculos, stock0, materiales, reloj, cantidad_minima>>

\* the orders that exist before the requests: none, one created by the
\* sequential generator, or one whose code has another format
InitCreate ==
    /\ pedidos \in {<<>>, <<Fila(1, "pendiente", 1, 1, FALSE)>>,
                    <<[Fila(1, "pendiente", 1, 1, FALSE)
                          EXCEPT !.codigo_seguimiento = <<2, 0, 2, 6, 1, 1, 0>>]>>}
    /\ \E a \in BOOLEAN :
         materiales = [Materiales0 EXCEPT ![2].activo = a]
    /\ stock \in [Materials -> 0 .. MaxStock]
    /\ stock0 = stock
    /\ vehiculos = VehiculoRows0
    /\ rq = [r \in Reqs |-> Idle]
    /\ cantidad_minima = [m \in Materials |-> 1]
    /\ reloj = 8

NextCreate ==
    \E r \in Reqs :
        \/ StartCreate(r)
        \/ CreateFindMaterial(r)
        \/ CreateCheckAvailability(r)
        \/ generateUniqueTrackingCode(r)
        \/ CreateInsert(r)

SpecCreate == InitCreate /\ [][NextCreate]_vars

\* C7 (as claimed): the codes that generateUniqueTrackingCode returned to two
\* different Pedido.create calls are different, whatever the interleaving.
C7_TrackingCodesDiffer ==
    \A a, b \in Reqs :
        (/\ a # b
         /\ rq[a].op = "create" /\ rq[b].op = "create"
         /\ rq[a].codigo # <<>> /\ rq[b].codigo # <<>>)
            => rq[a].codigo # rq[b].codigo

----------------------------------------------------------------------------
(* The order lifecycle: status changes, confirmations and assignments of    *)
(* concurrent requests                                                      *)

Init ==
    /\ \E e \in ESTADOS, q \in 1 .. MaxQty, e2 \in {"confirmado", "entregado"} :
         pedidos = <<Fila(1, e, q, 1, FALSE), Fila(2, e2, 1, 1, FALSE)>>
    /\ \E s \in 0 .. MaxStock : stock = [m \in Materials |-> IF m = 1 THEN s ELSE MaxStock]
    /\ stock0 = stock
    /\ materiales = Materiales0
    /\ vehiculos = VehiculoRows0
    /\ rq = [r \in Reqs |-> Idle]
    /\ cantidad_minima = [m \in Materials |-> 1]
    /\ reloj = 8

Next ==
    \E r \in Reqs :
        \/ StartChangeEstado(r)
        \/ StartConfirmar(r)
        \/ StartAsignarVehiculo(r)
        \/ ConfirmFindById(r)
        \/ ConfirmCheckAvailability(r)
        \/ ConfirmReduceStock(r)
        \/ AsignarFindPedido(r)
        \/ AsignarFindVehiculo(r)
        \/ AsignarFindAvailable(r)
        \/ VehiculoUpdateStatusFind(r)
        \/ VehiculoUpdateStatusWrite(r)
        \/ UpdateStatusFindById(r)
        \/ UpdateStatusWrite(r)

Spec == Init /\ [][Next]_vars

\* C3 (as claimed): every change of an order's persisted estado is an edge of
\* FLUJO_ESTADOS, for every interleaving of updateStatus, confirm and
\* assign-vehicle requests.
C3_OnlyPermittedEdges ==
    [][\A o \in DOMAIN pedidos :
          pedidos'[o].estado # pedidos[o].estado
              => pedidos'[o].estado \in FLUJO_ESTADOS[pedidos[o].estado]]_vars

\* C5 (as claimed): once a confirm call has returned or thrown, either it
\* decremented the stock and wrote the status, or it did neither.
C5_ConfirmAllOrNothing ==
    \A r \in Reqs :
        (rq[r].op = "confirmar" /\ Terminado(r)) => (rq[r].redujo <=> rq[r].escribio)

\* C11: when Pedido.updateStatus rejects a transition, the error names the
\* status the order has at that moment and the requested status, and lists
\* exactly the successors of the current status in FLUJO_ESTADOS: confirmado and
\* cancelado for pendiente -> en_transito, nothing for entregado and cancelado.
C11_IllegalTransitionMessage ==
    [][\A r \in Reqs :
        (rq[r].pc = "u_find" /\ rq'[r].msg = "transicion_invalida") =>
            LET actual == pedidos[rq[r].pedido].estado
                m == rq'[r].detalle IN
              /\ rq'[r].err = "BusinessLogicError"
              /\ m.desde = actual /\ m.hacia = rq[r].nuevo
              /\ m.permitidas = FLUJO_ESTADOS[actual]
              /\ (actual = "pendiente" /\ rq[r].nuevo = "en_transito")
                    => m.permitidas = {"confirmado", "cancelado"}
              /\ actual \in {"entregado", "cancelado"} => m.permitidas = {}
    ]_vars

\* pendiente -> en_transito was rejected, and so was a change of a final status
C11_Witness ==
    \E a, b \in Reqs :
        /\ rq[a].msg = "transicion_invalida" /\ rq[b].msg = "transicion_invalida"
        /\ rq[a].detalle.desde = "pendiente" /\ rq[a].detalle.hacia = "en_transito"
        /\ rq[a].detalle.permitidas = {"confirmado", "cancelado"}
        /\ rq[b].detalle.desde \in {"entregado", "cancelado"}
        /\ rq[b].detalle.permitidas = {}

\* C12: a step that makes Pedido.create fail inserts no order and leaves the
\* next number of the generator as it was; the failure of the synchronous
\* validations is a ValidationError, that of the material lookup a NotFoundError
\* raised exactly when the material is missing or not activo, that of the
\* availability check a BusinessLogicError raised exactly when the check is
\* false; none of the three has generated a code, and a code is generated only
\* after valid input, an activo material and a positive availability check.
C12_CreateFailures ==
    [][\A r \in Reqs :
        LET falla == rq'[r].op = "create" /\ rq[r].pc # "failed" /\ rq'[r].pc = "failed"
            m == rq[r].material
            noDisponible == m \notin DOMAIN materiales \/ ~materiales[m].activo
            insuficiente == m \notin DOMAIN stock \/ rq[r].cant > stock[m] IN
        /\ falla => pedidos' = pedidos /\ next_number' = next_number
        /\ (falla /\ rq[r].pc = "idle")
              => rq'[r].err = "ValidationError" /\ rq'[r].codigo = <<>>
        /\ (rq[r].pc = "n_material" /\ rq'[r] # rq[r])
              => /\ falla <=> noDisponible
                 /\ falla => rq'[r].err = "NotFoundError" /\ rq'[r].codigo = <<>>
                 /\ ~falla => rq'[r].pc = "n_check"
        /\ (rq[r].pc = "n_check" /\ rq'[r] # rq[r])
              => /\ falla <=> insuficiente
                 /\ falla => rq'[r].err = "BusinessLogicError" /\ rq'[r].codigo = <<>>
                 /\ ~falla => rq'[r].pc = "n_codigo"
        /\ (rq'[r].op = "create" /\ rq'[r].pc = "n_material")
              => /\ rq[r].pc \in {"idle", "n_material"}
                 /\ rq'[r].material # NoId /\ rq'[r].cant > 0
                 /\ rq'[r].cant <= CANTIDAD_MAXIMA
        /\ rq'[r].pc = "n_check" => rq[r].pc \in {"n_material", "n_check"}
        /\ rq'[r].pc = "n_codigo" => rq[r].pc \in {"n_check", "n_codigo"}
        /\ rq'[r].codigo # rq[r].codigo => rq[r].pc = "n_codigo"
    ]_vars

\* one create failed on a material that is not activo and another on the
\* availability check; no order was inserted and no code was generated
C12_Witness ==
    \E a, b \in Reqs :
        /\ rq[a].op = "create" /\ rq[a].err = "NotFoundError"
        /\ rq[a].material \in DOMAIN materiales
        /\ rq[b].op = "create" /\ rq[b].err = "BusinessLogicError"
        /\ rq[a].codigo = <<>> /\ rq[b].codigo = <<>>
        /\ rq[a].creado = NoId /\ rq[b].creado = NoId

\* C13: the step that completes a Pedido.create appends exactly one order, in
\* status pendiente with the quantity and material of the request, changes no
\* existing order and no material's cantidad_disponible; no step of a create
\* changes the stock.
C13_CreateDoesNotReserve ==
    [][/\ stock' = stock
       /\ \A r \in Reqs :
            (rq'[r].op = "create" /\ rq[r].pc # "done" /\ rq'[r].pc = "done") =>
                /\ Len(pedidos') = Len(pedidos) + 1
                /\ rq'[r].creado = Len(pedidos')
                /\ SubSeq(pedidos', 1, Len(pedidos)) = pedidos
                /\ pedidos'[Len(pedidos')].estado = "pendiente"
                /\ pedidos'[Len(pedidos')].cantidad = rq[r].cant
                /\ pedidos'[Len(pedidos')].material_id = rq[r].material
       /\ Len(pedidos') # Len(pedidos)
            => \E r \in Reqs : rq[r].pc = "n_insert" /\ rq'[r].pc = "done"
    ]_vars

\* two creates succeeded for one material; both orders are pendiente, each
\* quantity is within the stock, their sum is above it, the stock is untouched
C13_Witness ==
    \E a, b \in Reqs :
        /\ a # b /\ rq[a].op = "create" /\ rq[b].op = "create"
        /\ rq[a].pc = "done" /\ rq[b].pc = "done"
        /\ pedidos[rq[a].creado].estado = "pendiente"
        /\ pedidos[rq[b].creado].estado = "pendiente"
        /\ pedidos[rq[a].creado].material_id = pedidos[rq[b].creado].material_id
        /\ LET m == pedidos[rq[a].creado].material_id IN
             /\ stock[m] = stock0[m]
             /\ pedidos[rq[a].creado].cantidad <= stock[m]
             /\ pedidos[rq[b].creado].cantidad <= stock[m]
             /\ pedidos[rq[a].creado].cantidad + pedidos[rq[b].creado].cantidad > stock[m]

----------------------------------------------------------------------------
(* Material.update(id, updateData), called by updateMaterial. Prices are    *)
(* whole numbers, which the rounding to two decimals leaves as they are     *)

\* validatePrice
validatePrice(precio) == precio > 0 /\ precio <= PRECIO_MAXIMO

\* updateMaterial (PUT /materiales/:id); a precio of 0 stands for a body
\* without precio_por_unidad
StartUpdateMaterial(r) ==
    /\ rq[r].pc = "idle"
    /\ \E in \in (Materials \X (0 .. MaxPrecio)) \cup {<<NoId, 1>>, <<3, 1>>} :
         rq' = [rq EXCEPT ![r] =
                  IF ~validateId(in[1])
                  THEN Respuesta([Idle EXCEPT !.op = "updateMaterial"],
                                 "failed", "ValidationError", "invalido")
                  ELSE [Idle EXCEPT !.op = "updateMaterial", !.pc = "m_find",
                                    !.material = in[1], !.precio = in[2]]]
    /\ UNCHANGED <<pedidos, stock, vehiculos, stock0, materiales, reloj, cantidad_minima>>

\* await this.findById(id), then validatePrice(updateData.precio_por_unidad ||
\* existing.precio_por_unidad)
MaterialUpdateFind(r) ==
    /\ rq[r].pc = "m_find"
    /\ IF rq[r].material \notin DOMAIN materiales
       THEN Fail(r, "NotFoundError", "material_no_encontrado")
       ELSE LET existing == materiales[rq[r].material]
                precio == IF rq[r].precio # 0 THEN rq[r].precio
                          ELSE existing.precio_por_unidad IN
            IF ~validatePrice(precio) THEN Fail(r, "ValidationError", "invalido")
            ELSE rq' = [rq EXCEPT ![r].pc = "m_write", ![r].precio = precio]
    /\ UNCHANGED <<pedidos, stock, vehiculos, stock0, materiales, reloj, cantidad_minima>>

\* a price update that would also recompute the orders of the material
MaterialUpdateWrite_recalcula(r) ==
    /\ rq[r].pc = "m_write"
    /\ materiales' = [materiales EXCEPT ![rq[r].material].precio_por_unidad = rq[r].precio]
    /\ pedidos' = [o \in DOMAIN pedidos |->
                     IF pedidos[o].material_id = rq[r].material
                     THEN [pedidos[o] EXCEPT !.precio_total = pedidos[o].cantidad * rq[r].precio]
                     ELSE pedidos[o]]
    /\ rq' = [rq EXCEPT ![r] = Respuesta(rq[r], "done", "none", "none")]
    /\ UNCHANGED <<stock, vehiculos, stock0, reloj, cantidad_minima>>

\* await query(MATERIALES.UPDATE, ...): UPDATE ... WHERE id = $1 AND activo = true
MaterialUpdateWrite(r) ==
    /\ rq[r].pc = "m_write"
    /\ materiales' = IF rq[r].material \in DOMAIN materiales
                        /\ materiales[rq[r].material].activo
                     THEN [materiales EXCEPT ![rq[r].material].precio_por_unidad =
                                                 rq[r].precio]
                     ELSE materiales
    /\ rq' = [rq EXCEPT ![r] = Respuesta(rq[r], "done", "none", "none")]
    /\ UNCHANGED <<pedidos, stock, vehiculos, stock0, reloj, cantidad_minima>>

\* one pendiente order; orders are created while prices are updated and the
\* existing order is confirmed, assigned or moved to another status
InitPrecio ==
    /\ pedidos = <<Fila(1, "pendiente", 1, 1, FALSE)>>
    /\ materiales = Materiales0
    /\ stock = [m \in Materials |-> MaxStock]
    /\ stock0 = stock
    /\ vehiculos = VehiculoRows0
    /\ rq = [r \in Reqs |-> Idle]
    /\ cantidad_minima = [m \in Materials |-> 1]
    /\ reloj = 8

NextPrecio ==
    \/ \E r \in Reqs :
          \/ StartUpdateMaterial(r)
          \/ MaterialUpdateFind(r)
          \/ MaterialUpdateWrite(r)
    \/ NextCreate
    \/ Next

SpecPrecio == InitPrecio /\ [][NextPrecio]_vars

\* C14: the order a Pedido.create inserts has precio_total = cantidad times the
\* precio_por_unidad the call read from the material, and no step of a price
\* update, a status change, a confirmation, an assignment or another create
\* changes the precio_total, the cantidad or the codigo_seguimiento of an
\* existing order.
C14_PriceSnapshot ==
    [][/\ \A o \in DOMAIN pedidos :
            /\ o \in DOMAIN pedidos'
            /\ pedidos'[o].precio_total = pedidos[o].precio_total
            /\ pedidos'[o].cantidad = pedidos[o].cantidad
            /\ pedidos'[o].codigo_seguimiento = pedidos[o].codigo_seguimiento
       /\ \A r \in Reqs :
            /\ (rq[r].pc = "n_material" /\ rq'[r].pc = "n_check")
                  => rq'[r].precio = materiales[rq[r].material].precio_por_unidad
            /\ (rq[r].pc = "n_insert" /\ rq'[r].pc = "done")
                  => /\ pedidos'[rq'[r].creado].precio_total = rq[r].cant * rq[r].precio
                     /\ pedidos'[rq'[r].creado].cantidad = rq[r].cant
    ]_vars

\* an order was created and the price of its material was updated afterwards:
\* the order keeps the total computed from the price read at creation
C14_Witness ==
    \E a, b \in Reqs :
        /\ rq[a].op = "create" /\ rq[a].pc = "done"
        /\ rq[b].op = "updateMaterial" /\ rq[b].pc = "done"
        /\ LET o == pedidos[rq[a].creado] IN
             /\ rq[b].material = o.material_id
             /\ o.precio_total = o.cantidad * Materiales0[o.material_id].precio_por_unidad
             /\ o.precio_total
                  # o.cantidad * materiales[o.material_id].precio_por_unidad

----------------------------------------------------------------------------
(* Vehiculo.asignarVehiculoAutomatico(pedidoData): the selection of the     *)
(* engine, run beside the assignment handlers                               *)

\* the call, with the data of an order as pedidoData
StartSeleccion(r) ==
    /\ rq[r].pc = "idle"
    /\ \E id \in DOMAIN pedidos :
         rq' = [rq EXCEPT ![r] = [Idle EXCEPT !.op = "seleccion", !.pc = "s_lista",
                                               !.pedido = id,
                                               !.cant = pedidos[id].cantidad]]
    /\ UNCHANGED <<pedidos, stock, vehiculos, stock0, materiales, reloj, cantidad_minima>>

\* await this.findAvailableByCapacity(pedidoData.cantidad), then
\* aplicarReglasSeleccion, calcularTiempoEstimado and the result
SeleccionAplicarReglas(r) ==
    /\ rq[r].pc = "s_lista"
    /\ IF ~validateVehicleCapacity(rq[r].cant)
       THEN Fail(r, "ValidationError", "invalido")
       ELSE LET vehiculosDisponibles == obtener_vehiculos_disponibles(rq[r].cant)
                pedidoData == pedidos[rq[r].pedido] IN
         IF Len(vehiculosDisponibles) = 0
         THEN Fail(r, "BusinessLogicError", "sin_vehiculos")
         ELSE LET v == aplicarReglasSeleccion(vehiculosDisponibles, pedidoData) IN
              rq' = [rq EXCEPT ![r] =
                       [Respuesta([rq[r] EXCEPT
                                     !.veh = v,
                                     !.puntos = puntuacion(v, vehiculosDisponibles, pedidoData),
                                     !.tiempo = calcularTiempoEstimado(
                                                    vehiculos[v].capacidad, pedidoData, reloj),
                                     !.reglas = ReglasAplicadas(v, vehiculosDisponibles,
                                                                pedidoData)],
                                  "done", "none", "none")
                          EXCEPT !.lista = vehiculosDisponibles]]
    /\ UNCHANGED <<pedidos, stock, vehiculos, stock0, materiales, reloj, cantidad_minima>>

NextSeleccion ==
    \/ \E r \in Reqs : StartSeleccion(r) \/ SeleccionAplicarReglas(r)
    \/ NextAssign

SpecSeleccion == InitAssign /\ [][NextSeleccion]_vars

----------------------------------------------------------------------------
(* Stock.increaseStock on stocks that are empty, small, or at the upper     *)
(* limit of validateQuantity                                                *)

InitIncrease ==
    /\ pedidos \in PedidoRows(1)
    /\ materiales = Materiales0
    /\ stock \in [Materials -> {0, MaxStock, CANTIDAD_MAXIMA - 1, CANTIDAD_MAXIMA}]
    /\ stock0 = stock
    /\ vehiculos = VehiculoRows0
    /\ rq = [r \in Reqs |-> Idle]
    /\ cantidad_minima = [m \in Materials |-> 1]
    /\ reloj = 8

NextIncrease ==
    \E r \in Reqs :
        \/ StartIncreaseStock(r)
        \/ IncreaseStockFind(r)
        \/ UpdateQuantityFindMaterial(r)
        \/ UpdateQuantityFindStock(r)
        \/ UpdateQuantityWrite(r)

SpecIncrease == InitIncrease /\ [][NextIncrease]_vars

\* C16 (as claimed): a Stock.increaseStock call with a quantity in (0, 1000] on
\* a material that has a stock record never fails, and its write leaves
\* cantidad_disponible at the quantity before the call plus the increment.
C16_IncreaseAlwaysSucceeds ==
    [][\A r \in Reqs :
        (/\ rq[r].op = "increaseStock" /\ validateQuantity(rq[r].cant)
         /\ StockExists(rq[r].material))
            => /\ rq'[r].pc # "failed"
               /\ (rq[r].pc # "done" /\ rq'[r].pc = "done") =>
                     stock'[rq[r].material] = stock[rq[r].material] + rq[r].cant
    ]_vars

\* C17 (as claimed): once the persisted estado of an order is entregado or
\* cancelado, no step of a status change, a confirmation or an assignment
\* changes it.
C17_FinalStatesAbsorbing ==
    [][\A o \in DOMAIN pedidos :
          pedidos[o].estado \in {"entregado", "cancelado"}
              => pedidos'[o].estado = pedidos[o].estado]_vars

\* C19 (as claimed): a manual assignment that names a vehicle that does not
\* exist, is not disponible or has a capacity below the order's quantity, and an
\* automatic assignment that finds no disponible vehicle with a capacity of at
\* least the order's quantity, end with a business-logic error, the call having
\* read the order as confirmado and written nothing; no order and no vehicle
\* changes in that step.
C19_RejectedAssignmentChangesNothing ==
    [][\A r \in Reqs :
        LET vid == rq[r].vehiculo_id
            rechazoManual ==
                /\ rq[r].pc = "a_vehiculo"
                /\ \/ vid \notin DOMAIN vehiculos
                   \/ vehiculos[vid].estado # "disponible"
                   \/ vehiculos[vid].capacidad < rq[r].cant
            rechazoAutomatico ==
                /\ rq[r].pc = "a_lista"
                /\ \A v \in DOMAIN vehiculos :
                      ~(vehiculos[v].estado = "disponible"
                        /\ vehiculos[v].capacidad >= rq[r].cant) IN
        ((rechazoManual \/ rechazoAutomatico) /\ rq'[r] # rq[r])
            => /\ rq'[r].pc = "failed" /\ rq'[r].err = "BusinessLogicError"
               /\ rq[r].visto = "confirmado"
               /\ ~rq'[r].flip /\ ~rq'[r].escribio
               /\ pedidos' = pedidos /\ vehiculos' = vehiculos
    ]_vars

\* C18: the step that writes cancelado for an order read as pendiente,
\* confirmado or asignado changes the estado of that order and nothing else: no
\* material's cantidad_disponible, no vehicle, no other order and no other
\* column of the order.
C18_CancelChangesOnlyStatus ==
    [][\A r \in Reqs :
        (/\ rq[r].op = "changeEstado" /\ rq[r].pc = "u_write"
         /\ rq[r].nuevo = "cancelado" /\ rq'[r] # rq[r])
            => /\ rq[r].visto \in {"pendiente", "confirmado", "asignado"}
               /\ stock' = stock /\ vehiculos' = vehiculos
               /\ pedidos' = [pedidos EXCEPT ![rq[r].pedido].estado = "cancelado"]
    ]_vars

\* an order was confirmed and then cancelled: it is cancelado and the quantity
\* the confirmation reserved is still out of the stock
C18_Witness ==
    \E a, b \in Reqs :
        /\ rq[a].op = "confirmar" /\ rq[a].pc = "done" /\ rq[a].redujo
        /\ rq[b].op = "changeEstado" /\ rq[b].pc = "done" /\ rq[b].escribio
        /\ rq[a].pedido = rq[b].pedido
        /\ LET o == pedidos[rq[a].pedido] IN
             /\ o.estado = "cancelado"
             /\ stock[o.material_id] = stock0[o.material_id] - o.cantidad
        /\ vehiculos = VehiculoRows0

\* C20: a step of Pedido.updateStatus, called by changeEstado or inside a
\* confirmation or an assignment, whether it passes, rejects or writes, changes
\* no material's cantidad_disponible, no vehicle and
\* no order other than the one it names, of which it changes at most the
\* estado; and the stock changes only in the reservation step of a confirm.
C20_UpdateStatusOnlyWritesStatus ==
    [][/\ \A r \in Reqs :
            (/\ rq'[r].op = "changeEstado" \/ rq[r].pc \in {"u_find", "u_write"}
             /\ rq'[r] # rq[r])
                => /\ stock' = stock /\ vehiculos' = vehiculos
                   /\ \A o \in DOMAIN pedidos :
                         /\ o # rq'[r].pedido => pedidos'[o] = pedidos[o]
                         /\ pedidos'[o] = [pedidos[o] EXCEPT !.estado = pedidos'[o].estado]
                   /\ DOMAIN pedidos' = DOMAIN pedidos
                   /\ rq'[r].pc = "failed" => pedidos' = pedidos
       /\ stock' # stock
            => \E r \in Reqs : rq[r].op = "confirmar" /\ rq[r].pc = "c_reduce"
                               /\ rq'[r].redujo
    ]_vars

\* one status change was written and another was rejected, with a second order,
\* the stock and the vehicles as they were
C20_Witness ==
    \E a, b \in Reqs :
        /\ rq[a].op = "changeEstado" /\ rq[a].pc = "done" /\ rq[a].escribio
        /\ rq[b].op = "changeEstado" /\ rq[b].msg = "transicion_invalida"
        /\ rq[a].pedido = 1 /\ rq[b].pedido = 1
        /\ pedidos[1].estado = "asignado"
        /\ pedidos[2].estado \in {"confirmado", "entregado"}
        /\ stock = stock0 /\ vehiculos = VehiculoRows0

----------------------------------------------------------------------------
(* The selection engine on its own: Vehiculo.asignarVehiculoAutomatico run  *)
(* for one order over pools of three available vehicles                     *)

\* quantities of the order: they put cantidad / capacidad in every band of
\* REGLA 1 and on its edges
CantidadesMotor == {2, 3, 5, 6, 7, 9, 10, 11, 19}

\* last known positions: none, or <<km to the delivery address, minutes of age>>
Posiciones == {<<3, 10>>, <<5, 30>>, <<10, 60>>, <<15, 120>>, <<20, 200>>}

\* hours of the day around the edges of the rush and lunch windows
Horas == {6, 7, 9, 10, 11, 12, 14, 15, 16, 17, 19, 20}

\* delivery addresses, by the zone names they contain
Direcciones ==
    {{}, {"sacaba"}, {"quillacollo"}, {"centro"}, {"cercado"}, {"sacaba", "centro"}}

VehiculoMotor(c, pos) ==
    IF pos = <<>> THEN SinUbicacion("disponible", c)
    ELSE ConUbicacion("disponible", c, pos[1], pos[2])

\* either the positions vary (at 8 h, address outside the known zones) or the
\* hour and the address vary (no vehicle has a position)
InitMotor ==
    /\ \E q \in CantidadesMotor, c1 \in {8, 10, 20}, c2 \in {10, 15}, c3 \in {20, 25} :
         \/ /\ \E coords \in BOOLEAN, p1 \in Posiciones \cup {<<>>},
                   p2 \in {<<>>, <<3, 10>>, <<20, 200>>}, p3 \in {<<>>, <<10, 60>>} :
                  /\ pedidos = <<Fila(1, "confirmado", q, 1, coords)>>
                  /\ vehiculos = <<VehiculoMotor(c1, p1), VehiculoMotor(c2, p2),
                                   VehiculoMotor(c3, p3)>>
             /\ reloj = 8
          \/ /\ \E dir \in Direcciones :
                  pedidos = <<[Fila(1, "confirmado", q, 1, FALSE)
                                EXCEPT !.direccion_entrega = dir]>>
             /\ vehiculos = <<VehiculoMotor(c1, <<>>), VehiculoMotor(c2, <<>>),
                              VehiculoMotor(c3, <<>>)>>
             /\ reloj \in Horas
    /\ stock = [m \in Materials |-> MaxStock]
    /\ stock0 = stock
    /\ materiales = Materiales0
    /\ rq = [r \in Reqs |-> Idle]
    /\ cantidad_minima = [m \in Materials |-> 1]

NextMotor == \E r \in Reqs : StartSeleccion(r) \/ SeleccionAplicarReglas(r)

SpecMotor == InitMotor /\ [][NextMotor]_vars

\* a finished run of the engine
Seleccionado(r) == rq[r].op = "seleccion" /\ rq[r].pc = "done"

\* the points of the rules other than REGLA 1
OtrasReglas(v, lista, pedido) ==
    PuntosMenorCapacidad(v, lista) + PuntosProximidad(v, pedido) + PuntosActualizacion(v)

\* C21: with r = cantidad / capacidad, every eligible vehicle of a run is
\* awarded 10 points when 0.70 <= r <= 0.95, 7 when 0.50 <= r < 0.70, 4 when
\* 0.30 <= r < 0.50 and 1 for every other r, 0.95 < r <= 1 included.
C21_UtilizationBand ==
    \A r \in Reqs : Seleccionado(r) =>
        \A i \in DOMAIN rq[r].lista :
            LET v == rq[r].lista[i]
                q == pedidos[rq[r].pedido].cantidad
                c == vehiculos[v].capacidad
                banda == IF 100 * q >= 70 * c /\ 100 * q <= 95 * c THEN 10
                         ELSE IF 100 * q >= 50 * c /\ 100 * q < 70 * c THEN 7
                         ELSE IF 100 * q >= 30 * c /\ 100 * q < 50 * c THEN 4
                         ELSE 1
            IN /\ puntuacion(v, rq[r].lista, pedidos[rq[r].pedido])
                    = banda + OtrasReglas(v, rq[r].lista, pedidos[rq[r].pedido])
               /\ v = rq[r].veh =>
                    rq[r].reglas[1] =
                        CASE banda = 10 -> "Utilizacion optima de capacidad"
                          [] banda = 7 -> "Utilizacion aceptable de capacidad"
                          [] banda = 4 -> "Utilizacion baja de capacidad"
                          [] OTHER -> "Sobredimensionado para el pedido"

\* the capacities of a list of vehicles, in its order
Capacidades(lista) == [i \in DOMAIN lista |-> vehiculos[lista[i]].capacidad]

\* no vehicle of the list has a position
SinPosiciones(lista) == \A i \in DOMAIN lista : ~vehiculos[lista[i]].ubicacion

\* C22: in every run, exactly the eligible vehicles whose capacity is the
\* smallest of the eligible pool get the +5 of REGLA 2, all of them when several
\* share it; with no position on any vehicle, eligible capacities 10, 15 and 25
\* and an order of 9 score 15, 7 and 4 and the vehicle of 10 is selected.
C22_SmallestSufficientBonus ==
    \A r \in Reqs : Seleccionado(r) =>
        LET lista == rq[r].lista
            pedido == pedidos[rq[r].pedido]
            menor(v) == \A j \in DOMAIN lista :
                            vehiculos[v].capacidad <= vehiculos[lista[j]].capacidad
            bono(v) == puntuacion(v, lista, pedido)
                         - PuntosUtilizacion(pedido.cantidad, vehiculos[v].capacidad)
                         - PuntosProximidad(v, pedido) - PuntosActualizacion(v)
        IN /\ \A i \in DOMAIN lista :
                bono(lista[i]) = IF menor(lista[i]) THEN 5 ELSE 0
           /\ (\E k \in DOMAIN rq[r].reglas :
                    rq[r].reglas[k] = "Vehiculo de menor capacidad disponible")
                <=> menor(rq[r].veh)
           /\ (/\ pedido.cantidad = 9 /\ Capacidades(lista) = <<10, 15, 25>>
               /\ SinPosiciones(lista))
                => /\ [i \in DOMAIN lista |-> puntuacion(lista[i], lista, pedido)]
                        = <<15, 7, 4>>
                   /\ rq[r].veh = lista[1] /\ rq[r].puntos = 15

\* the run of the example: the vehicle of 10 is selected with 15 points, for
\* an optimal utilisation and the smallest capacity
C22_Witness ==
    \E a \in Reqs :
        /\ Seleccionado(a)
        /\ pedidos[rq[a].pedido].cantidad = 9
        /\ Capacidades(rq[a].lista) = <<10, 15, 25>> /\ SinPosiciones(rq[a].lista)
        /\ rq[a].veh = rq[a].lista[1] /\ rq[a].puntos = 15
        /\ rq[a].reglas = <<"Utilizacion optima de capacidad",
                            "Vehiculo de menor capacidad disponible">>

\* C23: the selected vehicle has a total score at least that of every other
\* eligible vehicle, and among the vehicles with the highest score it is the one
\* that comes first in the list, which is in ascending capacity.
C23_HighestScoreFirstWins ==
    \A r \in Reqs : Seleccionado(r) =>
        LET lista == rq[r].lista
            pedido == pedidos[rq[r].pedido]
        IN /\ \A i, j \in DOMAIN lista :
                i < j => vehiculos[lista[i]].capacidad <= vehiculos[lista[j]].capacidad
           /\ \E k \in DOMAIN lista :
                /\ rq[r].veh = lista[k]
                /\ rq[r].puntos = puntuacion(lista[k], lista, pedido)
                /\ \A j \in DOMAIN lista : puntuacion(lista[j], lista, pedido) <= rq[r].puntos
                /\ \A j \in 1 .. (k - 1) : puntuacion(lista[j], lista, pedido) < rq[r].puntos

\* a run where the first two of three eligible vehicles share the highest
\* score, above the third, and the first is selected
C23_Witness ==
    \E r \in Reqs :
        /\ Seleccionado(r) /\ Len(rq[r].lista) = 3
        /\ rq[r].veh = rq[r].lista[1]
        /\ puntuacion(rq[r].lista[2], rq[r].lista, pedidos[rq[r].pedido]) = rq[r].puntos
        /\ puntuacion(rq[r].lista[3], rq[r].lista, pedidos[rq[r].pedido]) < rq[r].puntos

\* the rules of a list of applied rules that are among the given ones
Entre(reglas, S) == {reglas[k] : k \in DOMAIN reglas} \cap S

ReglasProximidad ==
    {"Muy cerca del destino", "Relativamente cerca del destino",
     "Distancia considerable al destino"}

ReglasActualizacion ==
    {"Ubicacion recientemente actualizada", "Ubicacion actualizada en las ultimas 2 horas"}

C25_EstimatedTime ==
    \A r \in Reqs : Seleccionado(r) =>
        LET lista == rq[r].lista
            pedido == pedidos[rq[r].pedido]
            c == vehiculos[rq[r].veh].capacidad
            zone == IF \E z \in pedido.direccion_entrega : z \in {"sacaba", "quillacollo"}
                    THEN 15
                    ELSE IF \E z \in pedido.direccion_entrega : z \in {"cercado", "centro"}
                         THEN 5 ELSE 0
            hour == IF reloj \in (7 .. 9) \cup (17 .. 19) THEN 20
                    ELSE IF reloj \in 12 .. 14 THEN 10 ELSE 0
            size == IF c > 20 THEN 10 ELSE IF c < 10 THEN -5 ELSE 0
            loads == CHOOSE n \in 0 .. pedido.cantidad :
                        5 * n >= pedido.cantidad /\ 5 * (n - 1) < pedido.cantidad
        IN /\ rq[r].tiempo = 45 + zone + hour + size + loads * 2
           /\ \E k \in DOMAIN lista :
                /\ rq[r].veh = lista[k]
                /\ \A j \in DOMAIN lista :
                      puntuacion(lista[j], lista, pedido) <= puntuacion(lista[k], lista, pedido)
                /\ \A j \in 1 .. (k - 1) :
                      puntuacion(lista[j], lista, pedido) < puntuacion(lista[k], lista, pedido)

\* a run that selects a vehicle of more than 20 m3 at a rush hour although an
\* eligible vehicle with a shorter estimated time was in the list
C25_Witness ==
    \E r \in Reqs :
        /\ Seleccionado(r) /\ vehiculos[rq[r].veh].capacidad > 20
        /\ rq[r].tiempo = 45 + 20 + 10 + 8
        /\ \E i \in DOMAIN rq[r].lista :
              calcularTiempoEstimado(vehiculos[rq[r].lista[i]].capacidad,
                                     pedidos[rq[r].pedido], reloj) < rq[r].tiempo

----------------------------------------------------------------------------
(* Stock levels: Stock.findByMaterial beside Pedido.confirm                 *)

\* Stock.NIVELES_STOCK
NIVELES_STOCK == [CRITICO |-> "CRITICO", BAJO |-> "BAJO", NORMAL |-> "NORMAL"]

\* a level that is critical only under the minimum
calculateStockLevel_bajoElMinimo(cantidadActual, cantidadMinima) ==
    IF cantidadActual < cantidadMinima THEN NIVELES_STOCK.CRITICO
    ELSE IF 2 * cantidadActual <= cantidadMinima * 3 THEN NIVELES_STOCK.BAJO
    ELSE NIVELES_STOCK.NORMAL

\* Stock.calculateStockLevel; cantidadMinima * 1.5 is compared in halves
calculateStockLevel(cantidadActual, cantidadMinima) ==
    IF cantidadActual <= cantidadMinima THEN NIVELES_STOCK.CRITICO
    ELSE IF 2 * cantidadActual <= cantidadMinima * 3 THEN NIVELES_STOCK.BAJO
    ELSE NIVELES_STOCK.NORMAL

\* Stock.findByMaterial(materialId): validateId, then await query(STOCK.FIND_BY_MATERIAL)
\* and the level of the row that was read
FindByMaterial(r) ==
    /\ rq[r].pc = "idle"
    /\ \E m \in MaterialIds :
         LET rec == [Idle EXCEPT !.op = "findByMaterial", !.material = m] IN
         IF ~validateId(m)
         THEN rq' = [rq EXCEPT ![r] = Respuesta(rec, "failed", "ValidationError", "invalido")]
         ELSE IF ~(StockExists(m) /\ m \in DOMAIN materiales)
         THEN rq' = [rq EXCEPT ![r] = Respuesta(rec, "done", "none", "null")]
         ELSE rq' = [rq EXCEPT ![r] =
                       [Respuesta([rec EXCEPT
                                     !.nivel = calculateStockLevel(stock[m],
                                                                   cantidad_minima[m])],
                                  "done", "none", "none")
                          EXCEPT !.leido = stock[m]]]
    /\ UNCHANGED <<pedidos, stock, vehiculos, stock0, materiales, reloj, cantidad_minima>>

\* one pendiente order for material 1, whose stock and minimum vary
InitNivel ==
    /\ \E q \in {1, 8} :
         pedidos = <<Fila(1, "pendiente", q, 1, FALSE)>>
    /\ \E disponible \in 0 .. 12 :
         stock = [m \in Materials |-> IF m = 1 THEN disponible ELSE MaxStock]
    /\ \E minima \in {0, 2, 4, 5, 7} :
         cantidad_minima = [m \in Materials |-> IF m = 1 THEN minima ELSE 1]
    /\ stock0 = stock
    /\ vehiculos = VehiculoRows0
    /\ materiales = Materiales0
    /\ rq = [r \in Reqs |-> Idle]
    /\ reloj = 8

NextNivel ==
    \E r \in Reqs :
        \/ FindByMaterial(r)
        \/ StartConfirmar(r)
        \/ ConfirmFindById(r)
        \/ ConfirmCheckAvailability(r)
        \/ ConfirmReduceStock(r)
        \/ UpdateStatusFindById(r)
        \/ UpdateStatusWrite(r)

SpecNivel == InitNivel /\ [][NextNivel]_vars

\* a finished read of the stock row of a material
Leyo(r) == rq[r].op = "findByMaterial" /\ rq[r].pc = "done" /\ rq[r].msg = "none"

\* C26: the level of a stock row is CRITICO when the available quantity is at
\* most the minimum, BAJO when it is above the minimum and at most one and a half
\* times the minimum, NORMAL otherwise; once an order of 8 is confirmed against
\* 10 available with minimum 5, the stock is 2 and a read of it says CRITICO.
C26_StockLevel ==
    /\ \A r \in Reqs : Leyo(r) =>
          LET disponible == rq[r].leido
              minima == cantidad_minima[rq[r].material]
          IN /\ rq[r].nivel \in {"CRITICO", "BAJO", "NORMAL"}
             /\ rq[r].nivel = "CRITICO" <=> disponible <= minima
             /\ rq[r].nivel = "BAJO" <=>
                    minima < disponible /\ 10 * disponible <= 15 * minima
             /\ rq[r].nivel = "NORMAL" <=> 10 * disponible > 15 * minima
    /\ \A a \in Reqs :
          (/\ rq[a].op = "confirmar" /\ rq[a].pc = "done"
           /\ pedidos[1].cantidad = 8 /\ stock0[1] = 10 /\ cantidad_minima[1] = 5)
            => /\ stock[1] = 2
               /\ \A b \in Reqs :
                     Leyo(b) /\ rq[b].material = 1 /\ rq[b].leido = stock[1]
                        => rq[b].nivel = "CRITICO"

\* the scenario: the order of 8 confirmed against 10 with minimum 5, and a read
\* that returns 2 and CRITICO
C26_Witness ==
    \E a, b \in Reqs :
        /\ rq[a].op = "confirmar" /\ rq[a].pc = "done" /\ rq[a].redujo
        /\ pedidos[1].cantidad = 8 /\ pedidos[1].estado = "confirmado"
        /\ stock0[1] = 10 /\ cantidad_minima[1] = 5
        /\ Leyo(b) /\ rq[b].material = 1 /\ rq[b].leido = 2
        /\ rq[b].nivel = "CRITICO"

----------------------------------------------------------------------------
(* Reservations over the life of an order *)

\* C27: whenever the persisted estado of an order becomes confirmado, the request
\* that writes it has taken the quantity of that order from the stock with the
\* conditional decrement, once; PUT /pedidos/:id/estado with nuevo_estado =
\* confirmado on a pendiente order included.
C27_ConfirmadoMeansReserved ==
    [][\A o \in DOMAIN pedidos :
          (pedidos[o].estado # "confirmado" /\ pedidos'[o].estado = "confirmado")
            => \E r \in Reqs :
                  /\ rq'[r] # rq[r] /\ rq[r].pedido = o /\ rq[r].redujo
                  /\ stock0[pedidos[o].material_id] - stock[pedidos[o].material_id]
                        >= pedidos[o].cantidad]_vars

----------------------------------------------------------------------------
(* Reservations and Stock.increaseStock as the only writers of the stock    *)

NextConservacion ==
    \E r \in Reqs :
        \/ StartConfirmar(r)
        \/ ConfirmFindById(r)
        \/ ConfirmCheckAvailability(r)
        \/ ConfirmReduceStock(r)
        \/ UpdateStatusFindById(r)
        \/ UpdateStatusWrite(r)
        \/ StartReduceStock(r)
        \/ ReduceStockCheck(r)
        \/ ReduceStockInfo(r)
        \/ ReduceStockUpdate(r)
        \/ StartIncreaseStock(r)
        \/ IncreaseStockFind(r)
        \/ UpdateQuantityFindMaterial(r)
        \/ UpdateQuantityFindStock(r)
        \/ UpdateQuantityWrite(r)

SpecConservacion == InitStock /\ [][NextConservacion]_vars

\* the quantity a request has added to the stock of material m so far: the
\* increment of a completed increase, minus the quantity of a reservation made
Aporte(r, m) ==
    IF rq[r].material # m THEN 0
    ELSE IF rq[r].op = "increaseStock" /\ rq[r].escribio THEN rq[r].cant
    ELSE IF rq[r].op \in {"confirmar", "reduceStock"} /\ rq[r].redujo THEN 0 - rq[r].cant
    ELSE 0

\* C28: in every state, for every interleaving of increases with reservations
\* and other increases, the available quantity of a material is its initial
\* quantity plus the completed increases minus the successful reservations.
C28_StockConservation ==
    \A m \in DOMAIN stock :
        stock[m] = stock0[m] + Aporte("r1", m) + Aporte("r2", m)

----------------------------------------------------------------------------
(* The two writes of an assignment *)

\* C29: once an assign-vehicle request has ended, it has written en_uso on a
\* vehicle if and only if it has written asignado on its order; a request whose
\* status write is rejected leaves no vehicle en_uso behind.
C29_AssignAllOrNothing ==
    \A r \in Reqs :
        (Asigna(r) /\ Terminado(r)) => (rq[r].flip <=> rq[r].escribio)

----------------------------------------------------------------------------
(* Tracking codes near the end of the six-digit range *)

\* validateTrackingCode: /^ZAM\d{6}$/ on the trimmed, uppercased code; a code
\* is held as the digits that follow ZAM
validateTrackingCode(codigo) ==
    /\ codigo # <<>>
    /\ Len(codigo) = 6
    /\ \A i \in DOMAIN codigo : codigo[i] \in 0 .. 9

\* one order, with a sequential code
ConCodigo(n) ==
    <<[Fila(1, "pendiente", 1, 1, FALSE) EXCEPT !.codigo_seguimiento = CodigoDe(n)]>>

\* no order, one order with a low code, or one with one of the last two codes of
\* six digits
InitCodigo ==
    /\ pedidos \in {<<>>, ConCodigo(41), ConCodigo(999998), ConCodigo(999999)}
    /\ materiales = Materiales0
    /\ stock \in [Materials -> {0, MaxStock}]
    /\ stock0 = stock
    /\ vehiculos = VehiculoRows0
    /\ rq = [r \in Reqs |-> Idle]
    /\ cantidad_minima = [m \in Materials |-> 1]
    /\ reloj = 8

SpecCodigo == InitCodigo /\ [][NextCreate]_vars

\* C30: every code generateUniqueTrackingCode returns is accepted by
\* validateTrackingCode and its number is greater than the number of every
\* well-formed code stored at that moment, whatever the stored codes are,
\* ZAM999999 included.
C30_GeneratedCodeIsValidAndNew ==
    [][\A r \in Reqs :
        (rq[r].pc = "n_codigo" /\ rq'[r].pc = "n_insert") =>
            /\ validateTrackingCode(rq'[r].codigo)
            /\ \A o \in DOMAIN pedidos :
                  BienFormado(pedidos[o].codigo_seguimiento)
                    => Numero(rq'[r].codigo) > Numero(pedidos[o].codigo_seguimiento)
    ]_vars

====
